---- MODULE Spec2Model ----
(***************************************************************************)
(* A model of the arena-backed skew heap of src/src/lib.rs.                *)
(*                                                                         *)
(* Handles are the 0-based arena indices of the source; the arena `nodes`  *)
(* is a TLA+ sequence, so the slot of handle h is nodes[h + 1].            *)
(* Option::None of a Handle is the value None, Option::None of an item is  *)
(* NoItem.  Items are the positive integers.                               *)
(*                                                                         *)
(* A run of the program can end in a fault: a panic (index out of bounds,  *)
(* arithmetic overflow in a build with overflow checks) or the exhaustion  *)
(* of the call stack by a recursion of merge that never returns.  `fault`  *)
(* records it; a faulted heap takes no further step.                       *)
(*                                                                         *)
(* `count` is a usize.  A build without overflow checks wraps it; the      *)
(* model keeps the representative of count modulo 2^64 that is closest to  *)
(* zero, so -1 stands for usize::MAX.                                      *)
(***************************************************************************)
EXTENDS Integers, Sequences, FiniteSets, Bags, TLC

\* ---------------------------------------------------------------- bounds
MaxItem == 3          \* items put by the free interleaving are 1..MaxItem
MaxOps == 8           \* public calls made by the free interleaving
SmallFill == 4        \* longest exhaustively enumerated fill of the drain runs
BigExtra == 2         \* the long runs fill DefragMinLen .. DefragMinLen+BigExtra items
NumPatterns == 5      \* item orders tried by the long runs
ChurnOps == 2         \* free put/take calls made after a long fill, before the drain
LateMax == 11         \* a late put is made when at most LateMax items are left
LateOps == 210        \* public calls made by a run with a late put

\* ------------------------------------------------------- program constants
DefragMinLen == 100   \* needs_defrag: self.nodes.len() >= 100
DefragPercent == 90   \* needs_defrag: 90 * self.nodes.len() / 100

None == -1            \* Option<Index>::None
NoItem == 0           \* Option<T>::None

VARIABLES
  count,    \* SkewHeap.count
  root,     \* SkewHeap.root
  nodes,    \* SkewHeap.nodes
  freed,    \* SkewHeap.freed
  fault,    \* "none", or how the last call ended the run
  call,     \* the last public call, its argument, its result and what it saw
  held,     \* bag of the items put and not yet returned by take
  nPut,     \* number of put calls that returned
  nTook,    \* number of take calls that returned an item
  ops,      \* number of public calls made
  nPass,    \* number of compaction passes run
  plan,     \* the items a scripted run puts, in order
  churn,    \* free calls a scripted run still makes between its fill and its drain
  phase,    \* position of the caller: "free", "fill", "churn", "drain", "done"
  taken     \* the results of the take calls of the drain loop, in order

vars == <<count, root, nodes, freed, fault, call, held, nPut, nTook, ops, nPass, plan, churn, phase, taken>>

\* ------------------------------------------------------------------ Node
\* Node::new
NewNode(item) == [item |-> item, left |-> None, right |-> None, parent |-> None]

\* Option<T>::partial_cmp as used by Node::partial_cmp: None < Some(_)
NodeGt(x, y) ==
  IF x.item = NoItem THEN FALSE
  ELSE IF y.item = NoItem THEN TRUE
  ELSE x.item > y.item

\* the bounds check of self.nodes[i]
InBounds(ns, i) == i >= 0 /\ i < Len(ns)

\* a heap value: the four fields plus the fault raised while computing it
Heap(c, r, ns, fr, f) == [count |-> c, root |-> r, nodes |-> ns, freed |-> fr, fault |-> f]

Failed(h, f) == [h EXCEPT !.fault = f]

\* SkewHeap::new
New == Heap(0, None, << >>, << >>, "none")

\* SkewHeap::size
size(h) == h.count

\* SkewHeap::is_empty
is_empty(h) == h.count = 0

\* ----------------------------------------------------------------- merge
MergeResult(ns, res, f) == [nodes |-> ns, res |-> res, fault |-> f]

\* SkewHeap::merge is recursive, and every recursive call is made before
\* the caller writes any node.  The model runs it as the source does, in two
\* passes over an explicit call stack: the calls on the way down (Descend),
\* then the rest of each open call of the last match arm, innermost first
\* (Unwind).  Both passes are iterated by halving, which only keeps the
\* evaluation shallow.
\*
\* The state of the way down: the arguments (a, b) of the call being entered,
\* `open` the first arguments of the calls of the last match arm that wait
\* for their recursive call, `entered` the number of calls entered, and
\* `status`: "run", "done" (a call returned without recursing, `res` is what
\* it returned), "panic" (bounds check of self.nodes[..]) or
\* "stack_overflow".  The way down reads one fixed arena, so the arguments of
\* a call determine the arguments of the next: once more calls are entered
\* than there are pairs of slots, a pair has come twice and the calls repeat
\* for ever: the stack is exhausted.
Descent(a, b, open, entered, status, res) ==
  [a |-> a, b |-> b, open |-> open, entered |-> entered, status |-> status, res |-> res]

\* entering one call of merge: the match on (a, b), lines 108-115
merge_enter(ns, st) ==
  LET a == st.a
      b == st.b
  IN IF a = None /\ b = None THEN Descent(a, b, st.open, st.entered, "done", None)
     ELSE IF b = None THEN Descent(a, b, st.open, st.entered, "done", a)
     ELSE IF a = None THEN Descent(a, b, st.open, st.entered, "done", b)
     ELSE IF ~InBounds(ns, a) \/ ~InBounds(ns, b)
          THEN Descent(a, b, st.open, st.entered, "panic", None)
     ELSE IF st.entered >= Len(ns) * Len(ns)
          THEN Descent(a, b, st.open, st.entered, "stack_overflow", None)
     ELSE IF NodeGt(ns[a + 1], ns[b + 1])
          THEN Descent(b, a, st.open, st.entered + 1, "run", None)
     ELSE Descent(b, ns[a + 1].right, Append(st.open, a), st.entered + 1, "run", None)

\* 2^k calls entered one after the other, or fewer when the way down ends
RECURSIVE Descend(_, _, _)
Descend(ns, st, k) ==
  IF st.status # "run" THEN st
  ELSE IF k = 0 THEN merge_enter(ns, st)
  ELSE Descend(ns, Descend(ns, st, k - 1), k - 1)

\* the whole way down
RECURSIVE DescendAll(_, _, _)
DescendAll(ns, st, k) ==
  IF st.status # "run" THEN st ELSE DescendAll(ns, Descend(ns, st, k), k + 1)

\* the rest of the call merge(Some(a), Some(b)) of the last match arm, once
\* its recursive call has returned new_left_node: lines 117-128
merge_return(m, a) ==
  LET new_left_node == m.res
      n1 == [m.nodes EXCEPT ![a + 1].right = m.nodes[a + 1].left]
      n2 == [n1 EXCEPT ![a + 1].left = new_left_node]
      n3 == IF new_left_node # None
            THEN [n2 EXCEPT ![new_left_node + 1].parent = a]
            ELSE n2
  IN MergeResult(n3, a, "none")

\* the open calls open[lo .. hi] return, innermost (hi) first
RECURSIVE Unwind(_, _, _, _)
Unwind(m, open, hi, lo) ==
  IF m.fault # "none" \/ hi < lo THEN m
  ELSE IF hi = lo THEN merge_return(m, open[hi])
  ELSE LET mid == (hi + lo) \div 2
       IN Unwind(Unwind(m, open, hi, mid + 1), open, mid, lo)

\* SkewHeap::merge
merge(ns, a, b) ==
  LET up(down) ==
        IF down.status # "done" THEN MergeResult(ns, None, down.status)
        ELSE Unwind(MergeResult(ns, down.res, "none"), down.open, Len(down.open), 1)
  IN up(DescendAll(ns, Descent(a, b, << >>, 0, "run", None), 0))

\* ----------------------------------------------------------------- arena
OpResult(h, res) == [heap |-> h, res |-> res]

\* alloc_node as it would be if it popped the back of the free list
alloc_node_lifo(h, item) ==
  IF Len(h.freed) > 0
  THEN LET idx == h.freed[Len(h.freed)]
           popped == [h EXCEPT !.freed = SubSeq(@, 1, Len(@) - 1)]
       IN IF ~InBounds(h.nodes, idx)
          THEN OpResult(Failed(popped, "panic"), None)
          ELSE OpResult([popped EXCEPT !.nodes[idx + 1].item = item], idx)
  ELSE OpResult([h EXCEPT !.nodes = Append(@, NewNode(item))], Len(h.nodes))

\* SkewHeap::alloc_node
alloc_node(h, item) ==
  IF Len(h.freed) > 0
  THEN LET idx == Head(h.freed)
           popped == [h EXCEPT !.freed = Tail(@)]
       IN IF ~InBounds(h.nodes, idx)
          THEN OpResult(Failed(popped, "panic"), None)
          ELSE OpResult([popped EXCEPT !.nodes[idx + 1].item = item], idx)
  ELSE OpResult([h EXCEPT !.nodes = Append(@, NewNode(item))], Len(h.nodes))

\* SkewHeap::free_node
free_node(h, idx) ==
  IF ~InBounds(h.nodes, idx)
  THEN Failed(h, "panic")
  ELSE [h EXCEPT !.nodes[idx + 1].item = NoItem, !.freed = Append(@, idx)]

\* self.freed.make_contiguous().sort()
SortFreed(fr) == SortSeq(fr, LAMBDA x, y : x < y)

\* RelinkParent as it would be if only the parent's left link were updated
RelinkParentLeftOnly(ns, from, to) ==
  LET parent_id == ns[to + 1].parent
  IN IF parent_id = None THEN MergeResult(ns, to, "none")
     ELSE IF ~InBounds(ns, parent_id) THEN MergeResult(ns, to, "panic")
     ELSE IF ns[parent_id + 1].left = from
          THEN MergeResult([ns EXCEPT ![parent_id + 1].left = to], to, "none")
     ELSE MergeResult(ns, to, "none")

\* "Update the parent's child link" of realloc_node
RelinkParent(ns, from, to) ==
  LET parent_id == ns[to + 1].parent
  IN IF parent_id = None THEN MergeResult(ns, to, "none")
     ELSE IF ~InBounds(ns, parent_id) THEN MergeResult(ns, to, "panic")
     ELSE IF ns[parent_id + 1].left = from
          THEN MergeResult([ns EXCEPT ![parent_id + 1].left = to], to, "none")
     ELSE IF ns[parent_id + 1].right = from
          THEN MergeResult([ns EXCEPT ![parent_id + 1].right = to], to, "none")
     ELSE MergeResult(ns, to, "none")

\* if let Some(child_id) = .. { self.nodes[child_id].parent = Some(to) }
RelinkChild(ns, child_id, to) ==
  IF child_id = None THEN MergeResult(ns, to, "none")
  ELSE IF ~InBounds(ns, child_id) THEN MergeResult(ns, to, "panic")
  ELSE MergeResult([ns EXCEPT ![child_id + 1].parent = to], to, "none")

\* "Update the left child's parent link", unless a bounds check has failed
RelinkLeft(m, to) ==
  IF m.fault # "none" THEN m ELSE RelinkChild(m.nodes, m.nodes[to + 1].left, to)

\* "Update the right child's parent link", unless a bounds check has failed
RelinkRight(m, to) ==
  IF m.fault # "none" THEN m ELSE RelinkChild(m.nodes, m.nodes[to + 1].right, to)

\* SkewHeap::realloc_node
realloc_node(h, from) ==
  LET move(sorted) ==
        IF Len(sorted.freed) = 0 \/ Head(sorted.freed) > from
        THEN OpResult(sorted, None)
        ELSE
          LET to == Head(sorted.freed)
              popped == [sorted EXCEPT !.freed = Tail(@)]
              copied == [h.nodes EXCEPT ![to + 1] = h.nodes[from + 1]]
              relinked(m) ==
                IF m.fault # "none"
                THEN OpResult(Failed([popped EXCEPT !.nodes = m.nodes], m.fault), None)
                ELSE OpResult(free_node([popped EXCEPT !.nodes = m.nodes], from), to)
          IN IF ~InBounds(h.nodes, to) \/ ~InBounds(h.nodes, from)
             THEN OpResult(Failed(popped, "panic"), None)
             ELSE relinked(RelinkRight(RelinkLeft(RelinkParent(copied, from, to), to), to))
  IN move([h EXCEPT !.freed = SortFreed(@)])

\* SkewHeap::needs_defrag
needs_defrag(h) ==
  Len(h.nodes) >= DefragMinLen
  /\ Len(h.freed) > (DefragPercent * Len(h.nodes)) \div 100

\* the state of the loop of SkewHeap::defrag: the heap, the index i and
\* whether the loop has been left (break)
LoopState(h, i, left) == [heap |-> h, res |-> i, left |-> left]

\* one iteration of the loop of SkewHeap::defrag, at index i
defrag_step(h, i) ==
  IF ~needs_defrag(h) THEN LoopState(h, i, TRUE)
  ELSE IF ~InBounds(h.nodes, i) THEN LoopState(Failed(h, "panic"), i, TRUE)
  ELSE IF h.nodes[i + 1].item # NoItem
  THEN LET moved(re) == IF re.heap.root = i THEN [re.heap EXCEPT !.root = re.res] ELSE re.heap
           next(re) ==
             IF re.heap.fault # "none" THEN LoopState(re.heap, i, TRUE)
             ELSE IF re.res = None THEN LoopState(re.heap, i, TRUE)
             ELSE IF i > 0 THEN LoopState(moved(re), i - 1, FALSE)
             ELSE LoopState(moved(re), i, TRUE)
       IN next(realloc_node(h, i))
  ELSE IF i > 0 THEN LoopState(h, i - 1, FALSE)
  ELSE LoopState(h, i, TRUE)

\* the iterations of the loop of SkewHeap::defrag at the indices hi, hi - 1,
\* .. lo, in that order, until the loop is left.  The range is split in
\* halves only to keep the evaluation shallow; the iterations run one after
\* the other as in the source.
RECURSIVE defrag_loop(_, _, _)
defrag_loop(st, hi, lo) ==
  IF st.left \/ hi < lo THEN st
  ELSE IF hi = lo THEN defrag_step(st.heap, hi)
  ELSE LET mid == (hi + lo) \div 2
       IN defrag_loop(defrag_loop(st, hi, mid + 1), mid, lo)

\* defrag_prune as it would be with the comparison of i turned around
defrag_prune_inverted(h, i, checked) ==
  IF i > Len(h.nodes) - 1
  THEN [h EXCEPT !.nodes = SubSeq(@, 1, Len(h.nodes) - Len(h.freed)), !.freed = << >>]
  ELSE h

\* the end of SkewHeap::defrag: truncate and clear.  nodes.len() -
\* freed.len() is a usize subtraction: below zero it panics in a build with
\* overflow checks and wraps to a length beyond the arena (truncate then
\* keeps every slot) in a build without.
defrag_prune(h, i, checked) ==
  IF i < Len(h.nodes) - 1
  THEN IF Len(h.freed) > Len(h.nodes)
       THEN IF checked THEN Failed(h, "panic") ELSE [h EXCEPT !.freed = << >>]
       ELSE [h EXCEPT !.nodes = SubSeq(@, 1, Len(h.nodes) - Len(h.freed)),
                      !.freed = << >>]
  ELSE h

\* SkewHeap::defrag
defrag(h, checked) ==
  LET prune(loop) ==
        IF loop.heap.fault # "none" THEN loop.heap
        ELSE defrag_prune(loop.heap, loop.res, checked)
  IN prune(defrag_loop(LoopState(h, Len(h.nodes) - 1, FALSE), Len(h.nodes) - 1, 0))

\* ------------------------------------------------------------ public API
\* SkewHeap::put; res is the returned size
put(h, item) ==
  LET merged(al, m) ==
        IF m.fault # "none" THEN OpResult(Failed(al.heap, m.fault), 0)
        ELSE OpResult([al.heap EXCEPT !.nodes = m.nodes, !.root = m.res, !.count = @ + 1],
                      al.heap.count + 1)
      allocated(al) ==
        IF al.heap.fault # "none" THEN OpResult(al.heap, 0)
        ELSE merged(al, merge(al.heap.nodes, al.heap.root, al.res))
  IN allocated(alloc_node(h, item))

\* the part of SkewHeap::take before the compaction check: count, merge of
\* the root's children, free of the old root.  self.count -= 1 at 0 panics
\* in a build with overflow checks and wraps in a build without.
take_root(h, checked) ==
  IF ~InBounds(h.nodes, h.root) THEN Failed(h, "panic")
  ELSE IF h.count = 0 /\ checked THEN Failed(h, "panic")
  ELSE
    LET dec == [h EXCEPT !.count = @ - 1]
        merged(m) ==
          IF m.fault # "none" THEN Failed(dec, m.fault)
          ELSE free_node([dec EXCEPT !.nodes = m.nodes, !.root = m.res], h.root)
    IN merged(merge(h.nodes, h.nodes[h.root + 1].left, h.nodes[h.root + 1].right))

\* what a call of take leaves: the heap, the returned Option<T>, whether
\* self.defrag() was called and the heap it was called on
TakeResult(h, res, pass, before) ==
  [heap |-> h, res |-> res, pass |-> pass, before |-> before]

\* SkewHeap::take
take(h, checked) ==
  IF h.root = None THEN TakeResult(h, NoItem, FALSE, New)
  ELSE
    LET item == IF InBounds(h.nodes, h.root) THEN h.nodes[h.root + 1].item ELSE NoItem
        compact(cut) ==
          IF cut.fault # "none" THEN TakeResult(cut, NoItem, FALSE, New)
          ELSE IF needs_defrag(cut) THEN TakeResult(defrag(cut, checked), item, TRUE, cut)
          ELSE TakeResult(cut, item, FALSE, New)
    IN compact(take_root(h, checked))

\* SkewHeap::peek; res is the returned Option<T>, fault the failed bounds
\* check of self.nodes[n]
peek(h) ==
  IF h.root = None THEN [res |-> NoItem, fault |-> "none"]
  ELSE IF ~InBounds(h.nodes, h.root) THEN [res |-> NoItem, fault |-> "panic"]
  ELSE [res |-> h.nodes[h.root + 1].item, fault |-> "none"]

\* ------------------------------------------------------------ the caller
\* the heap the caller owns
self == Heap(count, root, nodes, freed, fault)

Commit(h) ==
  /\ count' = h.count
  /\ root' = h.root
  /\ nodes' = h.nodes
  /\ freed' = h.freed
  /\ fault' = h.fault

\* what the last call was: op, its argument, its result, whether it ran a
\* compaction pass and the heap that pass started from
Call(op, arg, res, pass, before) ==
  [op |-> op, arg |-> arg, res |-> res, pass |-> pass, before |-> before]

Items == 1 .. MaxItem

\* a call of put(item)
Put(item) ==
  LET returns(r) ==
        LET returned == r.heap.fault = "none"
        IN /\ Commit(r.heap)
           /\ call' = Call("put", item, r.res, FALSE, New)
           /\ held' = IF returned THEN held (+) SetToBag({item}) ELSE held
           /\ nPut' = IF returned THEN nPut + 1 ELSE nPut
           /\ ops' = ops + 1
           /\ UNCHANGED <<nTook, nPass>>
  IN /\ fault = "none"
     /\ returns(put(self, item))

\* a call of take(), in a build with (checked) or without overflow checks
Take(checked) ==
  LET returns(r) ==
        LET got == r.heap.fault = "none" /\ r.res # NoItem
        IN /\ Commit(r.heap)
           /\ call' = Call("take", NoItem, r.res, r.pass, r.before)
           /\ held' = IF got /\ BagIn(r.res, held) THEN held (-) SetToBag({r.res}) ELSE held
           /\ nTook' = IF got THEN nTook + 1 ELSE nTook
           /\ ops' = ops + 1
           /\ nPass' = IF r.pass THEN nPass + 1 ELSE nPass
           /\ UNCHANGED nPut
  IN /\ fault = "none"
     /\ returns(take(self, checked))

\* a call of peek()
Peek ==
  LET r == peek(self)
  IN /\ fault = "none"
     /\ fault' = r.fault
     /\ call' = Call("peek", NoItem, r.res, FALSE, New)
     /\ ops' = ops + 1
     /\ UNCHANGED <<count, root, nodes, freed, held, nPut, nTook, nPass>>

InitHeap ==
  /\ count = New.count
  /\ root = New.root
  /\ nodes = New.nodes
  /\ freed = New.freed
  /\ fault = New.fault
  /\ call = Call("new", NoItem, NoItem, FALSE, New)
  /\ held = EmptyBag
  /\ nPut = 0
  /\ nTook = 0
  /\ ops = 0
  /\ nPass = 0
  /\ taken = << >>

\* ------------------------------------- any interleaving of put, take, peek
Init ==
  /\ InitHeap
  /\ plan = << >>
  /\ churn = 0
  /\ phase = "free"

FreePut ==
  /\ phase = "free"
  /\ ops < MaxOps
  /\ \E item \in Items : Put(item)
  /\ UNCHANGED <<plan, churn, phase, taken>>

FreeTake ==
  /\ phase = "free"
  /\ ops < MaxOps
  /\ \E checked \in BOOLEAN : Take(checked)
  /\ UNCHANGED <<plan, churn, phase, taken>>

FreePeek ==
  /\ phase = "free"
  /\ ops < MaxOps
  /\ Peek
  /\ UNCHANGED <<plan, churn, phase, taken>>

Next == FreePut \/ FreeTake \/ FreePeek

Spec == Init /\ [][Next]_vars

\* ------------------------------------------------ fill, then drain to empty
\* the loop of fill_drain (benches/benchmark.rs) and of main (scratch.rs):
\*   for n in &items { s.put(n) }   while !s.is_empty() { s.take() }

\* the k-th item order of length n: all equal, ascending, descending, then
\* strides
Pattern(k, n) ==
  [i \in 1 .. n |->
     IF k = 1 THEN 1
     ELSE IF k = 2 THEN i
     ELSE IF k = 3 THEN n + 1 - i
     ELSE 1 + ((i * (2 * k + 1)) % (n - k))]

SmallPlans == UNION {[1 .. n -> Items] : n \in 0 .. SmallFill}

BigPlans ==
  {Pattern(k, n) : k \in 1 .. NumPatterns,
                   n \in DefragMinLen .. DefragMinLen + BigExtra}

InitDrain ==
  /\ InitHeap
  /\ plan \in SmallPlans \cup BigPlans
  /\ churn = 0
  /\ phase = IF Len(plan) = 0 THEN "drain" ELSE "fill"

\* one iteration of the fill loop
FillStep ==
  /\ phase = "fill"
  /\ Put(plan[nPut + 1])
  /\ phase' = IF fault' # "none" THEN "fill"
              ELSE IF nPut + 1 < Len(plan) THEN "fill"
              ELSE IF churn > 0 THEN "churn"
              ELSE "drain"
  /\ UNCHANGED <<plan, churn, taken>>

\* one iteration of the drain loop: is_empty() was false, take() is called
DrainStep ==
  /\ phase = "drain"
  /\ fault = "none"
  /\ ~is_empty(self)
  /\ \E checked \in BOOLEAN : Take(checked)
  /\ taken' = IF fault' = "none" THEN Append(taken, call'.res) ELSE taken
  /\ UNCHANGED <<plan, churn, phase>>

\* the drain loop ends: is_empty() was true
DrainEnd ==
  /\ phase = "drain"
  /\ fault = "none"
  /\ is_empty(self)
  /\ phase' = "done"
  /\ UNCHANGED <<count, root, nodes, freed, fault, call, held, nPut, nTook, ops,
                 nPass, plan, churn, taken>>

NextDrain == FillStep \/ DrainStep \/ DrainEnd

SpecDrain == InitDrain /\ [][NextDrain]_vars

\* ------------------- long fill, a few free calls, then drain to empty
InitChurn ==
  /\ InitHeap
  /\ plan \in BigPlans
  /\ churn \in 1 .. ChurnOps
  /\ phase = "fill"

ChurnPut ==
  /\ phase = "churn"
  /\ \E item \in Items : Put(item)
  /\ churn' = churn - 1
  /\ phase' = IF churn' = 0 THEN "drain" ELSE "churn"
  /\ UNCHANGED <<plan, taken>>

ChurnTake ==
  /\ phase = "churn"
  /\ \E checked \in BOOLEAN : Take(checked)
  /\ churn' = churn - 1
  /\ phase' = IF churn' = 0 THEN "drain" ELSE "churn"
  /\ UNCHANGED <<plan, taken>>

NextChurn == FillStep \/ ChurnPut \/ ChurnTake \/ DrainStep \/ DrainEnd

SpecChurn == InitChurn /\ [][NextChurn]_vars

\* ------------- long fill, takes, one put late in the drain, then drain
InitLate ==
  /\ InitHeap
  /\ plan \in BigPlans
  /\ churn = 1
  /\ phase = "fill"

\* a take of the first part of the drain
LateTake ==
  /\ phase = "churn"
  /\ fault = "none"
  /\ ~is_empty(self)
  /\ \E checked \in BOOLEAN : Take(checked)
  /\ UNCHANGED <<plan, churn, phase, taken>>

\* the put made once the heap has shrunk to LateMax items or fewer
LatePut ==
  /\ phase = "churn"
  /\ size(self) <= LateMax
  /\ \E item \in Items : Put(item)
  /\ churn' = churn - 1
  /\ phase' = IF churn' = 0 THEN "drain" ELSE "churn"
  /\ UNCHANGED <<plan, taken>>

\* one iteration of the drain loop after the late put.  The loop need not
\* end (is_empty() stays false when count has wrapped or root is none with
\* count above zero); it is followed up to LateOps calls.
LateDrain ==
  /\ ops < LateOps
  /\ DrainStep

NextLate == FillStep \/ LateTake \/ LatePut \/ LateDrain \/ DrainEnd

SpecLate == InitLate /\ [][NextLate]_vars

\* ------------------------------------------------------------ properties
\* a least item of a non-empty bag
BagMin(B) == CHOOSE x \in BagToSet(B) : \A y \in BagToSet(B) : x <= y

\* the bag of the entries of a sequence
SeqBag(s) ==
  [x \in {s[i] : i \in 1 .. Len(s)} |-> Cardinality({i \in 1 .. Len(s) : s[i] = x})]

IsSorted(s) == \A i \in 1 .. Len(s) - 1 : s[i] <= s[i + 1]

\* the handles of h's children that are slots of the arena
Children(ns, i) == {c \in {ns[i + 1].left, ns[i + 1].right} : InBounds(ns, c)}

\* the slots reachable from the handle r over left/right
RECURSIVE Grow(_, _)
Grow(ns, S) ==
  LET T == S \cup UNION {Children(ns, i) : i \in S}
  IN IF T = S THEN S ELSE Grow(ns, T)

Reach(ns, r) == IF InBounds(ns, r) THEN Grow(ns, {r}) ELSE {}

\* the tree below the handle r, cut at depth d: << >> for none, else
\* <<item, left subtree, right subtree>>
RECURSIVE Unfold(_, _, _)
Unfold(ns, r, d) ==
  IF r = None \/ d = 0 THEN << >>
  ELSE IF ~InBounds(ns, r) THEN <<None>>
  ELSE <<ns[r + 1].item,
         Unfold(ns, ns[r + 1].left, d - 1),
         Unfold(ns, ns[r + 1].right, d - 1)>>

\* a depth that covers a tree of h.count nodes (a compaction pass runs with
\* at most a tenth of the arena live)
UnfoldDepth(h) == IF h.count < 0 THEN 2 ELSE h.count + 2

\* a public call was just made
Called(op) == call'.op = op /\ ops' = ops + 1

\* C1: a take() made while at least one item is held returns, and returns a
\* least item of the bag of items put and not yet taken, which then leaves
\* the bag.
C1_TakeReturnsMinimum ==
  [][(Called("take") /\ held # EmptyBag)
       => /\ fault' = "none"
          /\ call'.res = BagMin(held)
          /\ held' = held (-) SetToBag({call'.res})]_vars

\* C2: n puts on a new heap followed by takes until is_empty(): the run ends
\* without a fault, exactly n takes return an item, the items come out in
\* non-decreasing order and are the items put, each as often as it was put.
C2_FillDrainSorted ==
  /\ fault = "none"
  /\ IsSorted(taken)
  /\ \A i \in 1 .. Len(taken) : taken[i] # NoItem
  /\ phase = "done" => /\ Len(taken) = Len(plan)
                       /\ nTook = Len(plan)
                       /\ SeqBag(taken) = SeqBag(plan)

\* C2 witness: a drain of at least DefragMinLen items has ended and ran a
\* compaction pass on the way.
C2_Witness ==
  /\ phase = "done"
  /\ Len(plan) >= DefragMinLen
  /\ Len(taken) = Len(plan)
  /\ nPass >= 1

\* C3: size() is the number of puts minus the number of takes that returned
\* an item, a put returns that size, and is_empty() iff size() = 0.
C3_SizeAccounting ==
  fault = "none" =>
    /\ size(self) = nPut - nTook
    /\ call.op = "put" => call.res = nPut - nTook
    /\ is_empty(self) <=> size(self) = 0

\* C4: when size() = 0, take() and peek() return the empty result, do not
\* fault and leave size() at 0.
C4_EmptyIsStable ==
  [][((Called("take") \/ Called("peek")) /\ size(self) = 0)
       => /\ fault' = "none"
          /\ call'.res = NoItem
          /\ count' = 0]_vars

\* C5: peek() returns the empty result when no item is held and a least held
\* item otherwise, and changes no field of the heap.
C5_PeekIsMinimum ==
  [][Called("peek")
       => /\ fault' = "none"
          /\ call'.res = (IF held = EmptyBag THEN NoItem ELSE BagMin(held))
          /\ UNCHANGED <<count, root, nodes, freed>>]_vars

\* C6: every put and every take terminates: no call of merge recurses for
\* ever.
C6_CallsTerminate == fault # "stack_overflow"

\* C7: a compaction pass leaves count as it was and the tree below root as
\* it was: same shape, same item at every position.
C7_CompactionKeepsTree ==
  call.pass =>
    /\ fault = "none"
    /\ count = call.before.count
    /\ Unfold(nodes, root, UnfoldDepth(call.before))
         = Unfold(call.before.nodes, call.before.root, UnfoldDepth(call.before))

\* C9: root is None iff count = 0, and otherwise root is a slot with an item
\* from which exactly count slots with an item are reachable.
C9_RootAndCount ==
  fault = "none" =>
    /\ root = None <=> count = 0
    /\ root # None =>
         /\ InBounds(nodes, root)
         /\ nodes[root + 1].item # NoItem
         /\ Cardinality({i \in Reach(nodes, root) : nodes[i + 1].item # NoItem}) = count

\* C10: every slot with an item holds an item not greater than the item of
\* its left child and of its right child.
C10_MinHeapLinks ==
  fault = "none" =>
    \A i \in 0 .. Len(nodes) - 1 :
      nodes[i + 1].item # NoItem =>
        \A c \in {nodes[i + 1].left, nodes[i + 1].right} \ {None} :
          /\ InBounds(nodes, c)
          /\ nodes[c + 1].item # NoItem
          /\ nodes[i + 1].item <= nodes[c + 1].item

\* the handles of the slots that hold an item
Live(ns) == {i \in 0 .. Len(ns) - 1 : ns[i + 1].item # NoItem}

\* the left and right fields of the slot i that are not none
Links(ns, i) == {ns[i + 1].left, ns[i + 1].right} \ {None}

\* C11: the left/right links of the live nodes form a tree: no node has the
\* same handle as both children, no handle is a child of two live nodes, and
\* no live node is reachable from itself.
C11_LinksFormTree ==
  fault = "none" =>
    /\ \A p \in Live(nodes) :
         nodes[p + 1].left # None => nodes[p + 1].left # nodes[p + 1].right
    /\ \A p, q \in Live(nodes) : p # q => Links(nodes, p) \cap Links(nodes, q) = {}
    /\ \A p \in Live(nodes) : p \notin Grow(nodes, Children(nodes, p))

\* C12: when the free list is not empty, the node alloc_node hands to merge
\* holds the new item and has left, right and parent none, as a freshly
\* appended node has.
C12_ReuseClearsLinks ==
  (fault = "none" /\ Len(freed) > 0) =>
    \A item \in Items :
      /\ alloc_node(self, item).heap.fault = "none"
      /\ alloc_node(self, item).heap.nodes[alloc_node(self, item).res + 1] = NewNode(item)

\* C13: every handle of the free list is a slot with no item whose left,
\* right and parent are none or designate a slot with no item.
C13_FreedSlotsUnlinked ==
  fault = "none" =>
    \A k \in 1 .. Len(freed) :
      /\ InBounds(nodes, freed[k])
      /\ nodes[freed[k] + 1].item = NoItem
      /\ {nodes[freed[k] + 1].left, nodes[freed[k] + 1].right, nodes[freed[k] + 1].parent}
           \cap Live(nodes) = {}

\* C14: the arena length is count plus the length of the free list.  A
\* negative count stands for a usize near 2^64, which no arena length
\* equals.
C14_ArenaAccounting ==
  fault = "none" => (count >= 0 /\ Len(nodes) = count + Len(freed))

\* C15: after every put or take that returned, the compaction trigger is
\* false: the arena is shorter than DefragMinLen or at most DefragPercent
\* percent of it is free.
C15_TriggerIsFalse == fault = "none" => ~needs_defrag(self)

\* C15 witness: a take has just run a compaction pass and returned.
C15_Witness ==
  /\ fault = "none"
  /\ call.op = "take"
  /\ call.pass
  /\ needs_defrag(call.before)

\* the bag of the items held by the slots of an arena
ItemBag(ns) ==
  [x \in {ns[i + 1].item : i \in Live(ns)} |->
     Cardinality({i \in Live(ns) : ns[i + 1].item = x})]

\* C16: when a compaction pass has finished, the free list is empty, the
\* arena length is count, every slot holds an item, and the items held are
\* the items held before the pass, each as often.
C16_PassLeavesDenseArena ==
  (call.pass /\ fault = "none") =>
    /\ freed = << >>
    /\ Len(nodes) = count
    /\ \A i \in 1 .. Len(nodes) : nodes[i].item # NoItem
    /\ ItemBag(nodes) = ItemBag(call.before.nodes)

\* C17: a put made with a non-empty free list leaves the arena length as
\* it was and puts its item in the slot at the head of the free list, which
\* leaves the list; a put made with an empty free list appends one slot; a
\* take that runs no compaction pass leaves the arena length as it was and
\* appends the old root at the back of the free list, and a pass empties the
\* list: the head of the list is always the handle freed earliest.
C17_ReuseOldestFirst ==
  [][/\ (Called("put") /\ fault' = "none" /\ Len(freed) > 0)
          => /\ Len(nodes') = Len(nodes)
             /\ freed' = Tail(freed)
             /\ nodes'[Head(freed) + 1].item = call'.arg
     /\ (Called("put") /\ fault' = "none" /\ Len(freed) = 0)
          => /\ Len(nodes') = Len(nodes) + 1
             /\ freed' = << >>
             /\ nodes'[Len(nodes')].item = call'.arg
     /\ (Called("take") /\ fault' = "none" /\ ~call'.pass)
          => /\ Len(nodes') = Len(nodes)
             /\ freed' = IF root = None THEN freed ELSE Append(freed, root)
     /\ (Called("take") /\ fault' = "none" /\ call'.pass)
          => freed' = << >>]_vars

\* C17 witness: the put made late in a drain has returned and, no pass
\* having run, the arena is as long as it was after the fill: the put has
\* reused a freed slot.
C17_Witness ==
  /\ fault = "none"
  /\ call.op = "put"
  /\ nPut = Len(plan) + 1
  /\ nTook >= 2
  /\ nPass = 0
  /\ Len(nodes) = Len(plan)

\* C18: the parent field of the root is none, and the parent field of
\* every other live node is the handle of a node whose left or right field
\* designates it.
C18_ParentLinks ==
  fault = "none" =>
    /\ InBounds(nodes, root) => nodes[root + 1].parent = None
    /\ \A i \in Live(nodes) \ {root} :
         /\ InBounds(nodes, nodes[i + 1].parent)
         /\ i \in Links(nodes, nodes[i + 1].parent)

\* C19: the free list holds no handle twice, and no handle of the free list
\* is the root or reachable from the root over left/right links.
C19_FreedNotInTree ==
  fault = "none" =>
    /\ \A j, k \in 1 .. Len(freed) : freed[j] = freed[k] => j = k
    /\ \A k \in 1 .. Len(freed) : freed[k] \notin Reach(nodes, root)

\* what C20 says of a call merge(a, b) on the arena ns that returned m
MergeContract(ns, a, b, m) ==
  IF a = None \/ b = None
  THEN m.res = (IF a = None THEN b ELSE a)
  ELSE LET w == IF ns[a + 1].item <= ns[b + 1].item THEN a ELSE b
           loser == IF w = a THEN b ELSE a
       IN /\ m.res = w
          /\ m.nodes[w + 1].left = merge(ns, loser, ns[w + 1].right).res
          /\ m.nodes[w + 1].right = ns[w + 1].left

\* C20, for the call of merge a take() makes in this state
MergeOfTake ==
  (root # None /\ InBounds(nodes, root)) =>
    LET a == nodes[root + 1].left
        b == nodes[root + 1].right
        m == merge(nodes, a, b)
    IN m.fault = "none" => MergeContract(nodes, a, b, m)

\* C20, for the call of merge a put(item) makes in this state
MergeOfPut(item) ==
  LET al == alloc_node(self, item)
      m == merge(al.heap.nodes, al.heap.root, al.res)
  IN (al.heap.fault = "none" /\ m.fault = "none")
       => MergeContract(al.heap.nodes, al.heap.root, al.res, m)

\* C20: a call of merge that returns returns the other argument when one is
\* none, and otherwise the node w with the smaller item (the first argument
\* when the items are equal), with w's left the merge of the loser and w's old
\* right, and w's right w's old left.
C20_MergeContract ==
  fault = "none" => (MergeOfTake /\ \A item \in Items : MergeOfPut(item))

====
